---- MODULE Spec2Model ----
(***************************************************************************)
(* Model of the sampling session engine (server/services/monitor.js,       *)
(* class MonitorService) and of the socket handlers that drive it          *)
(* (server/index.js).                                                      *)
(*                                                                         *)
(* Time.  Timers are kept as the time remaining until they fire, counted   *)
(* in units of 1/UnitsPerSecond second; config.duration and                *)
(* config.interval are held in the same units.  Time passes in the action  *)
(* Advance, which moves to the next instant at which some timer is due.    *)
(* A timer never fires early; two timers due at the same instant fire in   *)
(* either order.                                                           *)
(*                                                                         *)
(* Asynchrony.  Every await of the source splits a handler: the code       *)
(* between two awaits is one atomic step, and the settle of the awaited    *)
(* promise (Metric Source query, file write, system-info query) is a step  *)
(* of its own that may interleave with timers and with requests.           *)
(*                                                                         *)
(* Network.  The interface byte counters that si.networkStats() reads are  *)
(* the variable networkStats; they move in the action Traffic, which      *)
(* RateSpec and StatisticsSpec take.  Rates are held in hundredths of a    *)
(* KB/s.                                                                   *)
(*                                                                         *)
(* Statistics.  calculateStats of monitor.js and of pdfGenerator.js are    *)
(* operators; SeriesSpec applies them to every series of up to MaxLen      *)
(* values and nulls, StatisticsSpec lets a client call getStatistics() on  *)
(* the running engine.  What a call returns is carried by result.          *)
(*                                                                         *)
(* Server.  systemInfo, pdfReady and process are what index.js adds to a   *)
(* session: the snapshot getSystemInfo() captured, the 'pdf-ready' events  *)
(* sent, and the process itself, which ShutdownSpec takes through SIGINT   *)
(* and process.exit.  baselineAt records which tick stored the network     *)
(* baseline; PromptSpec is a session whose queries never overlap.          *)
(***************************************************************************)
EXTENDS Integers, Sequences, FiniteSets, TLC

\* ------------------------------------------------------------------ bounds
MaxSvc == 2          \* MonitorService instances the server may construct
MaxInFlight == 2     \* tick callbacks awaiting measureResources() at once
MaxRuns == 2         \* accepted start() calls per instance
MaxInterval == 3     \* largest config.interval, in time units
MaxRatio == 2        \* largest config.duration, in intervals
UnitsPerSecond == 2  \* resolution of the model's clock
MaxTicks == 3        \* ticks followed of a run whose interval is below 1 ms
MaxCounter == 2      \* values an interface byte counter takes
MaxLen == 3          \* longest series handed to calculateStats
MaxValue == 3        \* distinct values of a series

NULL == -1           \* null, for a timer handle

Svc == 1..MaxSvc
Intervals == 1..MaxInterval
Durations(n) == 1..(MaxRatio * n)

Min(S) == CHOOSE x \in S : \A y \in S : x <= y

VARIABLES
  nSvc,             \* instances constructed so far (instances 1..nSvc exist)
  config,           \* this.config: [duration, interval], in time units
  isRunning,        \* this.isRunning
  startTime,        \* this.sessionData.startTime is non-null
  endTime,          \* this.sessionData.endTime is non-null
  measurements,     \* this.sessionData.measurements
  elapsedSeconds,   \* this.elapsedSeconds
  intervalId,       \* this.intervalId: NULL, or time left until the next tick
  timeoutId,        \* this.timeoutId: NULL, or time left until the deadline
  ticks,            \* tick callbacks that have started and not finished
  saves,            \* stop() calls awaiting saveData(): the document being written
  store,            \* the data directory: the document at each path
  fired,            \* tick callbacks started so far
  errorCount,       \* 'error' events emitted so far
  completeCount,    \* 'complete' events emitted so far
  persistCount,     \* snapshots written so far
  runs,             \* accepted start() calls so far
  lastNetworkStats, \* this.lastNetworkStats
  networkStats,     \* what si.networkStats() reads now: the interface counters
  sessionId,        \* this.sessionId: the Date.now() of the constructor
  series,           \* the values handed to calculateStats
  systemInfo,       \* this.sessionData.systemInfo is the captured snapshot
  baselineAt,       \* tick callbacks started when lastNetworkStats was stored
  pdfReady,         \* index.js: the 'pdf-ready' events sent
  process,          \* the server process: "up", "closing" or "exited"
  result,           \* the call, request or deadline of the last step, if any
  monitorService,   \* index.js: let monitorService (0 is null)
  monitoringActive, \* index.js: let monitoringActive
  awaiting,         \* start-monitoring handlers awaiting getSystemInfo()
  completeListeners,\* listeners registered with on('complete')
  errorListeners    \* listeners registered with on('error')

engineVars == <<nSvc, config, isRunning, startTime, endTime, measurements,
                elapsedSeconds, intervalId, timeoutId, ticks, saves, store,
                fired, errorCount, completeCount, persistCount, runs,
                lastNetworkStats, sessionId>>
serverVars == <<monitorService, monitoringActive, awaiting,
                completeListeners, errorListeners>>
hostVars == <<series, process>>
otherVars == <<hostVars, systemInfo, baselineAt, pdfReady>>
vars == <<engineVars, serverVars, result, networkStats, otherVars>>

\* a reading of the interface counters: networkStats[0], or none when
\* si.networkStats() returns an empty array; null for this.lastNetworkStats
NoStats == [present |-> FALSE, rx_bytes |-> 0, tx_bytes |-> 0]
Stats(rx, tx) == [present |-> TRUE, rx_bytes |-> rx, tx_bytes |-> tx]

\* the values the byte counters take
Counters == {1000 * (2 * k - 1) : k \in 1..MaxCounter}
Readings == {NoStats} \cup {Stats(rx, tx) : rx \in Counters, tx \in Counters}

\* Date.now() when last read: the clock does not go back, and the next
\* reading falls in the same millisecond or in a later one
Max(S) == CHOOSE x \in S : \A y \in S : x >= y
Clock == Max({sessionId[i] : i \in Svc})

\* dataPath = path.join(this.config.dataDir, `${this.sessionId}.json`): one
\* data directory, so a path is a session identifier
Paths == 0..MaxSvc
DataPath(i) == sessionId[i]

\* no document of the session in the data directory
NoFile == [written |-> FALSE, measurements |-> <<>>]

\* the tick callbacks in flight: how many await the Metric Source, how many
\* hold a failure not yet caught, and the measurements composed and not yet
\* pushed, in the order composed: the continuations run first in, first out
NoTicks == [measuring |-> 0, failed |-> 0, composed |-> <<>>]

\* ------------------------------------------------------- MonitorService

\* constructor: config.duration || 300, config.interval || 1
DefaultDuration == 300
DefaultInterval == 1
Construct(cfg) ==
  [duration |-> IF cfg.duration = 0 THEN DefaultDuration * UnitsPerSecond
                ELSE cfg.duration,
   interval |-> IF cfg.interval = 0 THEN DefaultInterval * UnitsPerSecond
                ELSE cfg.interval]

\* setTimeout / setInterval: a delay below 1 ms is raised to 1 ms, which is
\* below the clock's resolution
TimerDelay(d) == IF d < 1 THEN 0 ELSE d

\* states of the session, as the fields of the instance show them
Idle(i) == ~isRunning[i] /\ ~endTime[i]
Stopped(i) == ~isRunning[i] /\ endTime[i]

InFlight(i) == ticks[i].measuring + ticks[i].failed + Len(ticks[i].composed)

\* a continuation is queued as a microtask: the push or the catch of a tick
\* callback whose measureResources() has settled.  The event loop runs the
\* queued microtasks before the next timer, request or I/O callback; what
\* may come in between is the settling of another query of the Metric
\* Source, whose timing the engine does not control.
MicrotaskQueued ==
  \E i \in Svc : ticks[i].failed > 0 \/ Len(ticks[i].composed) > 0

RemoveAt(q, k) == [j \in 1..(Len(q) - 1) |-> IF j < k THEN q[j] ELSE q[j + 1]]

\* start(): if (this.isRunning) throw
StartRejectedNever(i) == FALSE
StartRejected(i) == isRunning[i]

\* start() past its guard: the flag, startTime, the counter and both timers
StartBodyNoDeadline(i) ==
  /\ isRunning' = [isRunning EXCEPT ![i] = TRUE]
  /\ startTime' = [startTime EXCEPT ![i] = TRUE]
  /\ elapsedSeconds' = [elapsedSeconds EXCEPT ![i] = 0]
  /\ intervalId' = [intervalId EXCEPT ![i] = TimerDelay(config[i].interval)]
  /\ timeoutId' = [timeoutId EXCEPT ![i] = NULL]
  /\ runs' = [runs EXCEPT ![i] = @ + 1]
StartBody(i) ==
  /\ isRunning' = [isRunning EXCEPT ![i] = TRUE]
  /\ startTime' = [startTime EXCEPT ![i] = TRUE]
  /\ elapsedSeconds' = [elapsedSeconds EXCEPT ![i] = 0]
  /\ intervalId' = [intervalId EXCEPT ![i] = TimerDelay(config[i].interval)]
  /\ timeoutId' = [timeoutId EXCEPT ![i] = TimerDelay(config[i].duration)]
  /\ runs' = [runs EXCEPT ![i] = @ + 1]

\* stop(): if (!this.isRunning) return
StopIsNoopNever(i) == FALSE
StopIsNoop(i) == ~isRunning[i]

\* stop() past its guard, up to the await of saveData(): writeJson serialises
\* this.sessionData when it is called, so the document holds the measurements
\* of that moment
StopBodyKeepsInterval(i) ==
  /\ isRunning' = [isRunning EXCEPT ![i] = FALSE]
  /\ endTime' = [endTime EXCEPT ![i] = TRUE]
  /\ intervalId' = intervalId
  /\ timeoutId' = [timeoutId EXCEPT ![i] = NULL]
  /\ saves' = [saves EXCEPT ![i] = Append(@, measurements[i])]
StopBody(i) ==
  /\ isRunning' = [isRunning EXCEPT ![i] = FALSE]
  /\ endTime' = [endTime EXCEPT ![i] = TRUE]
  /\ intervalId' = [intervalId EXCEPT ![i] = NULL]
  /\ timeoutId' = [timeoutId EXCEPT ![i] = NULL]
  /\ saves' = [saves EXCEPT ![i] = Append(@, measurements[i])]

\* io.emit('pdf-ready', ...) of the 'complete' listener of instance i: the
\* download URL is made of sessionData.sessionId, the session that
\* completed, while the report is the one monitorService.generatePDF()
\* wrote, of the instance g the variable holds when the listener runs
PdfReady(i, g) ==
  [session |-> i, downloadUrl |-> sessionId[i],
   generator |-> g, pdfFileName |-> sessionId[g]]

\* emit('complete', sessionData): the event is counted, and the listener of
\* index.js (lines 78-80) clears monitoringActive
EmitComplete(i) ==
  /\ completeCount' = [completeCount EXCEPT ![i] = @ + 1]
  /\ monitoringActive' = IF completeListeners[i] > 0 THEN FALSE
                         ELSE monitoringActive
  /\ IF completeListeners[i] > 0
       THEN \E generated \in BOOLEAN :
              pdfReady' = IF generated
                            THEN pdfReady \cup {PdfReady(i, monitorService)}
                            ELSE pdfReady
       ELSE pdfReady' = pdfReady

\* emit('error', error): the event is counted, and the listener of index.js
\* (lines 104-108) clears monitoringActive
EmitError(i) ==
  /\ errorCount' = [errorCount EXCEPT ![i] = @ + 1]
  /\ monitoringActive' = IF errorListeners[i] > 0 THEN FALSE
                         ELSE monitoringActive


\* the last thing seen from outside: the outcome of a client's call or
\* request, or the deadline firing; every other step leaves None
None == [op |-> "none", svc |-> 0, out |-> "none"]
Outcome(op, i, out) == [op |-> op, svc |-> i, out |-> out]

\* the outcome of a call that returned a value to its caller
Returned(op, i, value) ==
  [op |-> op, svc |-> i, out |-> "returned", returned |-> value]

\* start(callback), whoever calls it
StartCall(i) ==
  IF StartRejected(i)
    THEN /\ result' = Outcome("start", i, "conflict")
         /\ UNCHANGED <<engineVars, serverVars, networkStats, otherVars>>
    ELSE /\ StartBody(i)
         /\ result' = Outcome("start", i, "ok")
         /\ UNCHANGED <<hostVars, systemInfo, baselineAt, pdfReady,
                        sessionId, networkStats, lastNetworkStats,
                        nSvc, config, endTime, measurements, ticks, saves,
                        store, fired, errorCount, completeCount,
                        persistCount, serverVars>>

\* start(callback), called by a client on an instance it has not stopped
Start(i) ==
  /\ ~MicrotaskQueued
  /\ i <= nSvc
  /\ ~Stopped(i)
  /\ StartCall(i)

\* start(callback), called by a client on an instance that was stopped
Restart(i) ==
  /\ ~MicrotaskQueued
  /\ i <= nSvc
  /\ Stopped(i)
  /\ runs[i] < MaxRuns
  /\ StartCall(i)

\* stop(), up to its await: the call itself, whoever makes it
StopCall(i) ==
  IF StopIsNoop(i)
    THEN UNCHANGED <<isRunning, endTime, intervalId, timeoutId, saves>>
    ELSE StopBody(i)

\* stop(), called by a client of the instance
Stop(i) ==
  /\ ~MicrotaskQueued
  /\ i <= nSvc
  /\ StopCall(i)
  /\ result' = Outcome("stop", i, IF StopIsNoop(i) THEN "noop" ELSE "ok")
  /\ UNCHANGED <<hostVars, systemInfo, baselineAt, pdfReady,
                 sessionId, networkStats, lastNetworkStats,
                 nSvc, config, startTime, measurements, elapsedSeconds, ticks,
                 store, fired, errorCount, completeCount, persistCount, runs,
                 serverVars>>

\* the setInterval callback starts: measureResources() is called and its
\* Metric Source queries are issued; the timer is armed again
IntervalFire(i) ==
  /\ ~MicrotaskQueued
  /\ intervalId[i] = 0
  /\ InFlight(i) < MaxInFlight
  /\ ticks' = [ticks EXCEPT ![i].measuring = @ + 1]
  /\ fired' = [fired EXCEPT ![i] = @ + 1]
  /\ intervalId' = [intervalId EXCEPT ![i] = TimerDelay(config[i].interval)]
  /\ result' = None
  /\ UNCHANGED <<hostVars, systemInfo, baselineAt, pdfReady,
                 sessionId, networkStats, lastNetworkStats,
                 nSvc, config, isRunning, startTime, endTime, measurements,
                 elapsedSeconds, timeoutId, saves, store, errorCount,
                 completeCount, persistCount, runs, serverVars>>

\* x.toFixed(2) of the quotient n / d, in hundredths: rounded to the nearest,
\* a half away from zero
ToFixed2(n, d) ==
  LET sign == IF (n < 0) = (d < 0) THEN 1 ELSE 0 - 1
      a == IF n < 0 THEN 0 - n ELSE n
      b == IF d < 0 THEN 0 - d ELSE d
  IN  sign * ((200 * a + b) \div (2 * b))

\* ((current - last) / timeDiff / 1024).toFixed(2), timeDiff being
\* config.interval in seconds: KB/s, in hundredths
KBpsPerTick(i, current, last) == ToFixed2(current - last, 1024)
KBps(i, current, last) ==
  ToFixed2((current - last) * UnitsPerSecond, config[i].interval * 1024)

\* networkSpeed: 0 unless there is a previous reading and an interface
NetworkSpeedFromZero(i, stats) ==
  IF stats.present
    THEN [rx |-> KBps(i, stats.rx_bytes, lastNetworkStats[i].rx_bytes),
          tx |-> KBps(i, stats.tx_bytes, lastNetworkStats[i].tx_bytes)]
    ELSE [rx |-> 0, tx |-> 0]
NetworkSpeed(i, stats) ==
  IF lastNetworkStats[i].present /\ stats.present
    THEN [rx |-> KBps(i, stats.rx_bytes, lastNetworkStats[i].rx_bytes),
          tx |-> KBps(i, stats.tx_bytes, lastNetworkStats[i].tx_bytes)]
    ELSE [rx |-> 0, tx |-> 0]

\* measureResources() after its await: the queries succeeded and the
\* measurement is composed, elapsed read from this.elapsedSeconds and the
\* network rates computed from the reading stats
Compose(i, stats) ==
  LET speed == NetworkSpeed(i, stats) IN
    [elapsed |-> elapsedSeconds[i], rxKBps |-> speed.rx, txKBps |-> speed.tx]

\* this.lastNetworkStats = networkStats.length > 0 ? networkStats[0] : null
Baseline(stats) == IF stats.present THEN stats ELSE NoStats

\* the tick callbacks started so far, noted when a baseline is stored
BaselineTick(i, stats) == IF stats.present THEN fired[i] ELSE 0

MeasureOk(i) ==
  /\ ticks[i].measuring > 0
  /\ ticks' = [ticks EXCEPT ![i].measuring = @ - 1,
                            ![i].composed = Append(@, Compose(i, networkStats))]
  /\ lastNetworkStats' = [lastNetworkStats EXCEPT ![i] = Baseline(networkStats)]
  /\ baselineAt' = [baselineAt EXCEPT ![i] = BaselineTick(i, networkStats)]
  /\ result' = None
  /\ UNCHANGED <<hostVars, systemInfo, pdfReady, sessionId, networkStats,
                 nSvc, config, isRunning, startTime, endTime, measurements,
                 elapsedSeconds, intervalId, timeoutId, saves, store, fired,
                 errorCount, completeCount, persistCount, runs, serverVars>>

\* measureResources() after its await: a query failed; the catch logs and
\* throws again
MeasureFail(i) ==
  /\ ticks[i].measuring > 0
  /\ ticks' = [ticks EXCEPT ![i].measuring = @ - 1, ![i].failed = @ + 1]
  /\ result' = None
  /\ UNCHANGED <<hostVars, systemInfo, baselineAt, pdfReady,
                 sessionId, networkStats, lastNetworkStats,
                 nSvc, config, isRunning, startTime, endTime, measurements,
                 elapsedSeconds, intervalId, timeoutId, saves, store, fired,
                 errorCount, completeCount, persistCount, runs, serverVars>>

\* this.elapsedSeconds++
ElapsedStep(i) == 1

\* progress: ((this.elapsedSeconds / this.config.duration) * 100).toFixed(2),
\* in hundredths of a percent; the counter holds ticks and the duration is
\* in seconds
Progress(i) ==
  ToFixed2(elapsedSeconds[i] * 100 * UnitsPerSecond, config[i].duration)

\* the tick callback after its await, on success: push, callback, counter
TickPush(i) ==
  /\ Len(ticks[i].composed) > 0
  /\ measurements' = [measurements EXCEPT
                        ![i] = Append(@, Head(ticks[i].composed))]
  /\ elapsedSeconds' = [elapsedSeconds EXCEPT ![i] = @ + ElapsedStep(i)]
  /\ ticks' = [ticks EXCEPT ![i].composed = Tail(@)]
  /\ result' = None
  /\ UNCHANGED <<hostVars, systemInfo, baselineAt, pdfReady,
                 sessionId, networkStats, lastNetworkStats,
                 nSvc, config, isRunning, startTime, endTime, intervalId,
                 timeoutId, saves, store, fired, errorCount, completeCount,
                 persistCount, runs, monitorService, awaiting,
                 monitoringActive, completeListeners, errorListeners>>

\* the catch of the tick callback: log, emit 'error'; the session goes on
TickFailedStops(i) ==
  /\ EmitError(i)
  /\ isRunning' = [isRunning EXCEPT ![i] = FALSE]
  /\ intervalId' = [intervalId EXCEPT ![i] = NULL]
TickFailed(i) ==
  /\ EmitError(i)
  /\ UNCHANGED <<isRunning, intervalId>>

\* the tick callback after its await, on failure
TickCatch(i) ==
  /\ ticks[i].failed > 0
  /\ TickFailed(i)
  /\ ticks' = [ticks EXCEPT ![i].failed = @ - 1]
  /\ result' = None
  /\ UNCHANGED <<hostVars, systemInfo, baselineAt, pdfReady,
                 sessionId, networkStats, lastNetworkStats,
                 nSvc, config, startTime, endTime, measurements,
                 elapsedSeconds, timeoutId, saves, store, fired,
                 completeCount, persistCount, runs, monitorService, awaiting,
                 completeListeners, errorListeners>>

\* the setTimeout callback: this.stop()
TimeoutFire(i) ==
  /\ ~MicrotaskQueued
  /\ timeoutId[i] = 0
  /\ StopCall(i)
  /\ result' = Outcome("deadline", i, "fired")
  /\ UNCHANGED <<hostVars, systemInfo, baselineAt, pdfReady,
                 sessionId, networkStats, lastNetworkStats,
                 nSvc, config, startTime, measurements, elapsedSeconds, ticks,
                 store, fired, errorCount, completeCount, persistCount, runs,
                 serverVars>>

\* stop() after its await: saveData() wrote the document, 'complete' is emitted
SaveOk(i, k) ==
  /\ ~MicrotaskQueued
  /\ k \in 1..Len(saves[i])
  /\ store' = [store EXCEPT ![DataPath(i)] =
                 [written |-> TRUE, measurements |-> saves[i][k]]]
  /\ persistCount' = [persistCount EXCEPT ![i] = @ + 1]
  /\ saves' = [saves EXCEPT ![i] = RemoveAt(@, k)]
  /\ EmitComplete(i)
  /\ result' = None
  /\ UNCHANGED <<hostVars, systemInfo, baselineAt,
                 sessionId, networkStats, lastNetworkStats,
                 nSvc, config, isRunning, startTime, endTime, measurements,
                 elapsedSeconds, intervalId, timeoutId, ticks, fired,
                 errorCount, runs, monitorService, awaiting,
                 completeListeners, errorListeners>>

\* stop() after its await: saveData() threw, so stop() rejects before its emit
SaveFailRollsBack(i, k) ==
  /\ ~MicrotaskQueued
  /\ k \in 1..Len(saves[i])
  /\ saves' = [saves EXCEPT ![i] = RemoveAt(@, k)]
  /\ endTime' = [endTime EXCEPT ![i] = FALSE]
  /\ result' = None
  /\ UNCHANGED <<hostVars, systemInfo, baselineAt, pdfReady,
                 sessionId, networkStats, lastNetworkStats,
                 nSvc, config, isRunning, startTime, measurements,
                 elapsedSeconds, intervalId, timeoutId, ticks, store, fired,
                 errorCount, completeCount, persistCount, runs, serverVars>>
SaveFail(i, k) ==
  /\ ~MicrotaskQueued
  /\ k \in 1..Len(saves[i])
  /\ saves' = [saves EXCEPT ![i] = RemoveAt(@, k)]
  /\ result' = None
  /\ UNCHANGED <<hostVars, systemInfo, baselineAt, pdfReady,
                 sessionId, networkStats, lastNetworkStats,
                 nSvc, config, isRunning, startTime, endTime, measurements,
                 elapsedSeconds, intervalId, timeoutId, ticks, store, fired,
                 errorCount, completeCount, persistCount, runs, serverVars>>

\* ------------------------------------------------------------------- time

\* a timer that is due and whose callback can run now
Due(i) ==
  \/ timeoutId[i] = 0
  \/ intervalId[i] = 0 /\ InFlight(i) < MaxInFlight

Pending == {intervalId[i] : i \in Svc} \cup {timeoutId[i] : i \in Svc}

Later(t, d) == IF t = NULL THEN NULL ELSE IF t > d THEN t - d ELSE 0

\* time passes up to the next instant at which a timer is due
Advance ==
  /\ ~MicrotaskQueued
  /\ \A i \in Svc : ~Due(i)
  /\ \E t \in Pending : t > 0
  /\ LET d == Min({t \in Pending : t > 0}) IN
       /\ intervalId' = [i \in Svc |-> Later(intervalId[i], d)]
       /\ timeoutId' = [i \in Svc |-> Later(timeoutId[i], d)]
  /\ result' = None
  /\ UNCHANGED <<hostVars, systemInfo, baselineAt, pdfReady,
                 sessionId, networkStats, lastNetworkStats,
                 nSvc, config, isRunning, startTime, endTime, measurements,
                 elapsedSeconds, ticks, saves, store, fired, errorCount,
                 completeCount, persistCount, runs, serverVars>>

\* ------------------------------------------- one instance and its client

Fresh ==
  /\ isRunning = [i \in Svc |-> FALSE]
  /\ startTime = [i \in Svc |-> FALSE]
  /\ endTime = [i \in Svc |-> FALSE]
  /\ measurements = [i \in Svc |-> <<>>]
  /\ elapsedSeconds = [i \in Svc |-> 0]
  /\ intervalId = [i \in Svc |-> NULL]
  /\ timeoutId = [i \in Svc |-> NULL]
  /\ ticks = [i \in Svc |-> NoTicks]
  /\ saves = [i \in Svc |-> <<>>]
  /\ store = [p \in Paths |-> NoFile]
  /\ fired = [i \in Svc |-> 0]
  /\ errorCount = [i \in Svc |-> 0]
  /\ completeCount = [i \in Svc |-> 0]
  /\ persistCount = [i \in Svc |-> 0]
  /\ runs = [i \in Svc |-> 0]
  /\ lastNetworkStats = [i \in Svc |-> NoStats]
  /\ systemInfo = [i \in Svc |-> FALSE]
  /\ baselineAt = [i \in Svc |-> 0]
  /\ pdfReady = {}
  /\ process = "up"
  /\ networkStats = Stats(Min(Counters), Min(Counters))
  /\ result = None
  /\ monitorService = 0
  /\ monitoringActive = FALSE
  /\ awaiting = {}
  /\ completeListeners = [i \in Svc |-> 0]
  /\ errorListeners = [i \in Svc |-> 0]

NoConfig == [duration |-> 0, interval |-> 0]

\* new MonitorService({duration, interval}), held by one client
Init ==
  /\ Fresh
  /\ series = <<>>
  /\ nSvc = 1
  /\ sessionId = [i \in Svc |-> IF i = 1 THEN 1 ELSE 0]
  /\ \E n \in Intervals : \E d \in Durations(n) :
       config = [i \in Svc |-> IF i = 1
                                 THEN Construct([duration |-> d, interval |-> n])
                                 ELSE NoConfig]

Engine(i) ==
  \/ IntervalFire(i)
  \/ MeasureOk(i)
  \/ MeasureFail(i)
  \/ TickPush(i)
  \/ TickCatch(i)
  \/ TimeoutFire(i)
  \/ \E k \in 1..MaxRuns : SaveOk(i, k)
  \/ \E k \in 1..MaxRuns : SaveFail(i, k)

Next ==
  \/ Start(1)
  \/ Stop(1)
  \/ Engine(1)
  \/ Advance

Spec == Init /\ [][Next]_vars

\* the event loop runs the callback of a timer that is due and the queued
\* microtasks, and time passes
FairSpec ==
  /\ Spec
  /\ WF_vars(Advance)
  /\ WF_vars(IntervalFire(1))
  /\ WF_vars(TimeoutFire(1))
  /\ WF_vars(TickPush(1))
  /\ WF_vars(TickCatch(1))

\* the same, with a client that also calls start() on a stopped instance
NextRestart ==
  \/ Start(1)
  \/ Restart(1)
  \/ Stop(1)
  \/ Engine(1)
  \/ Advance

RestartSpec == Init /\ [][NextRestart]_vars

\* the interface counters between two readings: traffic, a counter that
\* starts again, the interface gone or back; only a query that is pending
\* gets to see them
Traffic ==
  /\ \E i \in Svc : ticks[i].measuring > 0
  /\ \E r \in Readings : r # networkStats /\ networkStats' = r
  /\ result' = None
  /\ UNCHANGED <<engineVars, serverVars, otherVars>>

\* the engine with its client, on an interface whose counters move
RateNext ==
  \/ Start(1)
  \/ Stop(1)
  \/ Engine(1)
  \/ Advance
  \/ Traffic

RateSpec == Init /\ [][RateNext]_vars

\* a session of MaxTicks ticks whose queries of the Metric Source all settle
\* before the next tick is due, so that no two ticks overlap; a query may
\* fail, and the counters move
PromptInit ==
  /\ Fresh
  /\ series = <<>>
  /\ nSvc = 1
  /\ sessionId = [i \in Svc |-> IF i = 1 THEN 1 ELSE 0]
  /\ config = [i \in Svc |-> IF i = 1
                                THEN Construct([duration |-> MaxTicks,
                                                interval |-> 1])
                                ELSE NoConfig]

PromptNext ==
  \/ Start(1)
  \/ IntervalFire(1)
  \/ MeasureOk(1)
  \/ MeasureFail(1)
  \/ TickPush(1)
  \/ TickCatch(1)
  \/ TimeoutFire(1)
  \/ \E k \in 1..MaxRuns : SaveOk(1, k)
  \/ InFlight(1) = 0 /\ Advance
  \/ Traffic

PromptSpec == PromptInit /\ [][PromptNext]_vars

\* a session left to itself: nobody calls stop(), and every query of the
\* Metric Source and every write of the snapshot succeeds
DeadlineNext ==
  \/ Start(1)
  \/ IntervalFire(1)
  \/ MeasureOk(1)
  \/ TickPush(1)
  \/ TimeoutFire(1)
  \/ \E k \in 1..MaxRuns : SaveOk(1, k)
  \/ Advance

DeadlineSpec == Init /\ [][DeadlineNext]_vars

\* the numbers a caller may pass as duration or interval that the constructor
\* keeps as they are: every number but 0 is truthy, the negative ones too
Numbers == ((0 - MaxInterval)..MaxInterval) \ {0}

\* new MonitorService({duration, interval}) with any such numbers
ConfigInit ==
  /\ Fresh
  /\ series = <<>>
  /\ nSvc = 1
  /\ sessionId = [i \in Svc |-> IF i = 1 THEN 1 ELSE 0]
  /\ \E n \in Numbers : \E d \in Numbers :
       config = [i \in Svc |-> IF i = 1
                                 THEN Construct([duration |-> d, interval |-> n])
                                 ELSE NoConfig]

\* the same engine; an interval below 1 ms fires every millisecond, and the
\* model follows such a run for its first MaxTicks ticks
ConfigNext ==
  \/ Start(1)
  \/ Stop(1)
  \/ fired[1] < MaxTicks /\ IntervalFire(1)
  \/ MeasureOk(1)
  \/ MeasureFail(1)
  \/ TickPush(1)
  \/ TickCatch(1)
  \/ TimeoutFire(1)
  \/ \E k \in 1..MaxRuns : SaveOk(1, k)
  \/ \E k \in 1..MaxRuns : SaveFail(1, k)
  \/ Advance

ConfigSpec == ConfigInit /\ [][ConfigNext]_vars

\* ------------------------------------------------------------- index.js

\* MONITORING_DURATION, MONITORING_INTERVAL: parseInt(process.env...) || 300, 1
MONITORING_DURATION == 300
MONITORING_INTERVAL == 1

\* config.duration || MONITORING_DURATION, config.interval || MONITORING_INTERVAL
ServerConfig(cfg) ==
  [duration |-> IF cfg.duration = 0 THEN MONITORING_DURATION * UnitsPerSecond
                ELSE cfg.duration,
   interval |-> IF cfg.interval = 0 THEN MONITORING_INTERVAL * UnitsPerSecond
                ELSE cfg.interval]

\* socket.on('start-monitoring'): if (monitoringActive) { emit error; return }
RequestRejected == monitoringActive

\* socket.on('start-monitoring'), up to its await of getSystemInfo()
StartMonitoring(cfg) ==
  /\ ~MicrotaskQueued
  /\ IF RequestRejected
    THEN /\ result' = Outcome("start-monitoring", monitorService, "rejected")
         /\ UNCHANGED <<engineVars, serverVars, networkStats, otherVars>>
    ELSE /\ nSvc < MaxSvc
         /\ monitoringActive' = TRUE
         /\ nSvc' = nSvc + 1
         /\ config' = [config EXCEPT ![nSvc + 1] = Construct(ServerConfig(cfg))]
         /\ \E t \in {Clock, Clock + 1} :
              sessionId' = [sessionId EXCEPT ![nSvc + 1] = t]
         /\ monitorService' = nSvc + 1
         /\ awaiting' = awaiting \cup {nSvc + 1}
         /\ result' = Outcome("start-monitoring", nSvc + 1, "accepted")
         /\ UNCHANGED <<hostVars, systemInfo, baselineAt, pdfReady,
                        networkStats, lastNetworkStats, isRunning,
                        startTime,
                        endTime, measurements, elapsedSeconds, intervalId,
                        timeoutId, ticks, saves,
                        store, fired, errorCount, completeCount, persistCount,
                        runs, completeListeners, errorListeners>>

\* the handler after its await, getSystemInfo() of instance h resolved and
\* stored the snapshot in the sessionData of h (monitor.js line 87):
\* monitorService.start(...) on the instance the variable holds now, then
\* on('complete') and on('error') unless start() threw
SysInfoOk(h) ==
  /\ ~MicrotaskQueued
  /\ h \in awaiting
  /\ awaiting' = awaiting \ {h}
  /\ systemInfo' = [systemInfo EXCEPT ![h] = TRUE]
  /\ result' = None
  /\ LET m == monitorService IN
       IF StartRejected(m)
         THEN UNCHANGED <<hostVars, baselineAt, pdfReady,
                          networkStats, engineVars,
                          monitorService, monitoringActive,
                          completeListeners, errorListeners>>
         ELSE /\ StartBody(m)
              /\ completeListeners' = [completeListeners EXCEPT ![m] = @ + 1]
              /\ errorListeners' = [errorListeners EXCEPT ![m] = @ + 1]
              /\ UNCHANGED <<hostVars, baselineAt, pdfReady,
                             sessionId, networkStats, lastNetworkStats,
                             nSvc, config, endTime, measurements, ticks, saves,
                             store, fired, errorCount, completeCount,
                             persistCount, monitorService, monitoringActive>>

\* the handler after its await, getSystemInfo() of instance h rejected: the
\* handler ends there
SysInfoFail(h) ==
  /\ ~MicrotaskQueued
  /\ h \in awaiting
  /\ awaiting' = awaiting \ {h}
  /\ result' = None
  /\ UNCHANGED <<hostVars, systemInfo, baselineAt, pdfReady,
                 networkStats, engineVars, monitorService, monitoringActive,
                 completeListeners, errorListeners>>

\* socket.on('stop-monitoring')
StopMonitoring ==
  /\ ~MicrotaskQueued
  /\ IF monitorService # 0
    THEN /\ StopCall(monitorService)
         /\ monitoringActive' = FALSE
         /\ result' = Outcome("stop-monitoring", monitorService, "ok")
         /\ UNCHANGED <<hostVars, systemInfo, baselineAt, pdfReady,
                        sessionId, networkStats, lastNetworkStats,
                        nSvc, config, startTime, measurements, elapsedSeconds,
                        ticks, store, fired, errorCount, completeCount,
                        persistCount, runs, monitorService, awaiting,
                        completeListeners, errorListeners>>
    ELSE /\ result' = Outcome("stop-monitoring", 0, "ignored")
         /\ UNCHANGED <<engineVars, serverVars, networkStats, otherVars>>

\* the configurations clients send: whole seconds, sampled every second
Requests == {[duration |-> k * UnitsPerSecond, interval |-> UnitsPerSecond] :
               k \in 1..MaxRatio}

\* the server after its start: no instance yet
ServerInit ==
  /\ Fresh
  /\ series = <<>>
  /\ nSvc = 0
  /\ sessionId = [i \in Svc |-> 0]
  /\ config = [i \in Svc |-> NoConfig]

ServerNext ==
  \/ \E cfg \in Requests : StartMonitoring(cfg)
  \/ \E h \in Svc : SysInfoOk(h)
  \/ \E h \in Svc : SysInfoFail(h)
  \/ StopMonitoring
  \/ \E i \in Svc : Engine(i)
  \/ Advance

ServerSpec == ServerInit /\ [][ServerNext]_vars

\* process.on('SIGINT'): stop() of the current instance is called and not
\* awaited, then server.close() is given the callback that exits
Sigint ==
  /\ ~MicrotaskQueued
  /\ process # "exited"
  /\ process' = "closing"
  /\ result' = Outcome("SIGINT", monitorService, "ok")
  /\ IF monitorService # 0
       THEN /\ StopCall(monitorService)
            /\ UNCHANGED <<series, systemInfo, baselineAt, pdfReady,
                           sessionId, networkStats, lastNetworkStats,
                           nSvc, config, startTime, measurements,
                           elapsedSeconds, ticks, store, fired, errorCount,
                           completeCount, persistCount, runs, serverVars>>
       ELSE UNCHANGED <<engineVars, serverVars, networkStats, series,
                        systemInfo, baselineAt, pdfReady>>

\* the callback of server.close(): process.exit(0), whatever is pending
Exit ==
  /\ ~MicrotaskQueued
  /\ process = "closing"
  /\ process' = "exited"
  /\ result' = Outcome("exit", 0, "ok")
  /\ UNCHANGED <<engineVars, serverVars, networkStats, series,
                 systemInfo, baselineAt, pdfReady>>

\* the server until its process has exited
ShutdownNext ==
  \/ process # "exited" /\ ServerNext
  \/ Sigint
  \/ Exit

ShutdownSpec == ServerInit /\ [][ShutdownNext]_vars

\* the server under an event loop that runs due timers and queued microtasks
\* and lets time pass, with every awaited query and write settling one way
\* or the other; clients are free never to send another request
FairServerSpec ==
  /\ ServerSpec
  /\ WF_vars(Advance)
  /\ \A i \in Svc :
       /\ WF_vars(IntervalFire(i))
       /\ WF_vars(TimeoutFire(i))
       /\ WF_vars(TickPush(i))
       /\ WF_vars(TickCatch(i))
       /\ WF_vars(MeasureOk(i) \/ MeasureFail(i))
       /\ WF_vars(\E k \in 1..MaxRuns : SaveOk(i, k) \/ SaveFail(i, k))
       /\ WF_vars(SysInfoOk(i) \/ SysInfoFail(i))

\* ------------------------------------------------------------- statistics

\* values.sort((a, b) => a - b): ascending, by insertion
RECURSIVE InsertSorted(_, _)
InsertSorted(v, sorted) ==
  IF sorted = <<>> THEN <<v>>
  ELSE IF v < Head(sorted) THEN <<v>> \o sorted
  ELSE <<Head(sorted)>> \o InsertSorted(v, Tail(sorted))
RECURSIVE SortAscending(_)
SortAscending(values) ==
  IF values = <<>> THEN <<>>
  ELSE InsertSorted(Head(values), SortAscending(Tail(values)))

\* values.reduce((a, b) => a + b, 0)
RECURSIVE Sum(_)
Sum(values) == IF values = <<>> THEN 0 ELSE Head(values) + Sum(Tail(values))

Range(values) == {values[k] : k \in 1..Len(values)}

\* what calculateStats of monitor.js returns for no values: Math.min() is
\* Infinity, Math.max() is -Infinity, 0 / 0 is NaN and sorted[0] is undefined;
\* finite = FALSE stands for the three that are no numbers
NotANumber ==
  [finite |-> FALSE, min |-> 0, max |-> 0, avg |-> [num |-> 0, den |-> 0],
   median |-> 0]

\* { min: 0, max: 0, avg: 0, median: 0 }
ZeroAggregate ==
  [finite |-> TRUE, min |-> 0, max |-> 0, avg |-> [num |-> 0, den |-> 1],
   median |-> 0]

\* min, max, avg and median of values that are sorted already; avg is the
\* quotient num / den
Aggregate(values, sorted) ==
  [finite |-> TRUE,
   min |-> Min(Range(values)),
   max |-> Max(Range(values)),
   avg |-> [num |-> Sum(values), den |-> Len(values)],
   median |-> sorted[(Len(sorted) \div 2) + 1]]

\* calculateStats of getStatistics(): sort() sorts values itself, min and
\* max are taken of the sorted array; no test for an empty array
CalculateStatsUnsorted(values) ==
  IF Len(values) = 0 THEN NotANumber
  ELSE Aggregate(values, values)
CalculateStats(values) ==
  IF Len(values) = 0 THEN NotANumber
  ELSE Aggregate(SortAscending(values), SortAscending(values))

\* values.filter(v => v !== null && !isNaN(v)), values.filter(t => t !== null)
NotNull(v) == v # NULL
Filtered(values) == SelectSeq(values, NotNull)

\* calculateStats of the report: filters, answers an empty series with the
\* zero aggregate, sorts a copy
ReportCalculateStats(values) ==
  IF Len(Filtered(values)) = 0 THEN ZeroAggregate
  ELSE Aggregate(Filtered(values), SortAscending(Filtered(values)))

\* the series of one metric over the measurements of a session: a value or
\* null (cpu.temperature) for each measurement
Values == {10 * k : k \in 1..MaxValue}
AllSeries ==
  UNION {[1..n -> Values \cup {NULL}] : n \in 0..MaxLen}

\* getStatistics() returned null
Null == [kind |-> "null"]

\* getStatistics() as far as one metric goes: null for no measurements,
\* else calculateStats of the series, nulls filtered out as for
\* cpu.temperature
MetricStatistics ==
  /\ result' = Returned("getStatistics", 1,
                        IF Len(series) = 0 THEN Null
                        ELSE [kind |-> "statistics",
                              value |-> CalculateStats(Filtered(series))])
  /\ UNCHANGED <<engineVars, serverVars, networkStats, otherVars>>

\* addStatistics() of the report as far as one metric goes: nothing for no
\* measurements, else calculateStats of the series
ReportStatistics ==
  /\ Len(series) > 0
  /\ result' = Returned("addStatistics", 1,
                        [kind |-> "report",
                         value |-> ReportCalculateStats(series)])
  /\ UNCHANGED <<engineVars, serverVars, networkStats, otherVars>>

\* the callback of measurements.reduce(..., 0) in addDetailedStats:
\* curr.cpu.usage > arr[maxIdx].cpu.usage ? idx : maxIdx, indices from 0
PeakStepLatest(maxIdx, idx, values) ==
  IF values[idx + 1] >= values[maxIdx + 1] THEN idx ELSE maxIdx
PeakStep(maxIdx, idx, values) ==
  IF values[idx + 1] > values[maxIdx + 1] THEN idx ELSE maxIdx

\* reduce: the callback applied to every index in turn, from maxIdx = 0
RECURSIVE PeakFrom(_, _, _)
PeakFrom(maxIdx, idx, values) ==
  IF idx >= Len(values) THEN maxIdx
  ELSE PeakFrom(PeakStep(maxIdx, idx, values), idx + 1, values)
PeakIdx(values) == PeakFrom(0, 0, values)

\* addDetailedStats() of the report as far as one metric goes: nothing for
\* no measurements, else the index of the peak; cpu.usage and
\* memory.usagePercent are numbers in every measurement
PeakLookup ==
  /\ Len(series) > 0
  /\ \A k \in 1..Len(series) : series[k] # NULL
  /\ result' = Returned("addDetailedStats", 1,
                        [kind |-> "peak", value |-> PeakIdx(series)])
  /\ UNCHANGED <<engineVars, serverVars, networkStats, otherVars>>

\* an instance whose measurements hold any series of the metric
SeriesInit ==
  /\ Fresh
  /\ nSvc = 1
  /\ sessionId = [i \in Svc |-> IF i = 1 THEN 1 ELSE 0]
  /\ config = [i \in Svc |-> IF i = 1 THEN Construct(NoConfig) ELSE NoConfig]
  /\ series \in AllSeries

SeriesNext ==
  \/ MetricStatistics
  \/ ReportStatistics
  \/ PeakLookup

SeriesSpec == SeriesInit /\ [][SeriesNext]_vars

\* the series of the two network rates over the measurements of an instance
RxKBps(i) == [k \in 1..Len(measurements[i]) |-> measurements[i][k].rxKBps]
TxKBps(i) == [k \in 1..Len(measurements[i]) |-> measurements[i][k].txKBps]

\* if (measurements.length === 0) return null
StatisticsEmptyNever(i) == FALSE
StatisticsEmpty(i) == Len(measurements[i]) = 0

\* what getStatistics() returns, as far as the network rates go
Statistics(i) ==
  IF StatisticsEmpty(i) THEN Null
  ELSE [kind |-> "statistics",
        value |-> [rxKBps |-> CalculateStats(RxKBps(i)),
                   txKBps |-> CalculateStats(TxKBps(i))]]

\* the measurements put in ascending order of rxKBps
RECURSIVE InsertByRx(_, _)
InsertByRx(m, sorted) ==
  IF sorted = <<>> THEN <<m>>
  ELSE IF m.rxKBps < Head(sorted).rxKBps THEN <<m>> \o sorted
  ELSE <<Head(sorted)>> \o InsertByRx(m, Tail(sorted))
RECURSIVE SortByRx(_)
SortByRx(ms) ==
  IF ms = <<>> THEN <<>> ELSE InsertByRx(Head(ms), SortByRx(Tail(ms)))

\* measurements.map(m => ...) hands calculateStats a new array each time, so
\* its sort() sorts that array and this.sessionData.measurements stays
SortsMeasurements(i) ==
  measurements' = [measurements EXCEPT ![i] = SortByRx(@)]
SortsCopy(i) == measurements' = measurements

\* getStatistics(), called by a client of the instance
GetStatistics(i) ==
  /\ ~MicrotaskQueued
  /\ i <= nSvc
  /\ SortsCopy(i)
  /\ result' = Returned("getStatistics", i, Statistics(i))
  /\ UNCHANGED <<hostVars, systemInfo, baselineAt, pdfReady,
                 sessionId, networkStats, lastNetworkStats,
                 nSvc, config, isRunning, startTime, endTime,
                 elapsedSeconds, intervalId, timeoutId, ticks, saves, store,
                 fired, errorCount, completeCount, persistCount, runs,
                 serverVars>>

\* the engine with a client that also reads the statistics
StatisticsNext ==
  \/ RateNext
  \/ GetStatistics(1)

StatisticsSpec == Init /\ [][StatisticsNext]_vars

\* ----------------------------------------------------------- properties

\* the instances constructed so far
Live == 1..nSvc

Elapsed(i) == [j \in 1..Len(measurements[i]) |-> measurements[i][j].elapsed]

\* the ticks the schedule of a run holds: one per interval up to the deadline
ScheduledTicks(i) == config[i].duration \div config[i].interval

\* C1: once stop() has run (isRunning false, endTime set) the measurement
\* sequence of the session never changes again; a tick still in flight is
\* discarded.
C1_FrozenAfterStop ==
  [][\A i \in Live : Stopped(i) => measurements'[i] = measurements[i]]_vars

\* C2: terminal states are absorbing: an instance that has been stopped is
\* never running again.
C2_TerminalAbsorbing ==
  [][\A i \in Live : Stopped(i) => ~isRunning'[i]]_vars

\* C3: ticks are serialized: at most one tick callback is in flight.
C3_TicksSerialized == \A i \in Live : InFlight(i) <= 1

\* C4: the elapsed values of the measurement sequence are strictly
\* increasing in insertion order.
C4_ElapsedIncreasing ==
  \A i \in Live : \A j, k \in 1..Len(measurements[i]) :
    j < k => Elapsed(i)[j] < Elapsed(i)[k]

\* C5: every elapsed value (in seconds) is a non-negative multiple of the
\* configured interval and at most the duration, and each push advances the
\* elapsed counter by one interval.
C5_ElapsedInRange ==
  \A i \in Live : \A j \in 1..Len(measurements[i]) :
    /\ Elapsed(i)[j] >= 0
    /\ (Elapsed(i)[j] * UnitsPerSecond) % config[i].interval = 0
    /\ Elapsed(i)[j] * UnitsPerSecond <= config[i].duration
C5_ElapsedPerInterval ==
  /\ []C5_ElapsedInRange
  /\ [][\A i \in Live :
          Len(measurements'[i]) = Len(measurements[i]) + 1 =>
            elapsedSeconds'[i] * UnitsPerSecond
              = elapsedSeconds[i] * UnitsPerSecond + config[i].interval]_vars

\* C6: start() on a running instance always fails with the conflict error
\* and changes nothing: flag, startTime, counter, timers and measurements
\* are as before the call.
C6_StartConflict ==
  [][\A i \in Live :
       (isRunning[i] /\ result'.op = "start" /\ result'.svc = i) =>
         (result'.out = "conflict" /\ UNCHANGED <<engineVars, serverVars>>)]_vars
C6_Witness ==
  /\ result = Outcome("start", 1, "conflict")
  /\ isRunning[1]
  /\ Len(measurements[1]) > 0
  /\ InFlight(1) > 0

\* C7: at the server at most one MonitorService is running, and a
\* start-monitoring request that arrives while one is running is rejected.
C7_OneRunning == Cardinality({i \in Live : isRunning[i]}) <= 1
C7_SingleSession ==
  /\ []C7_OneRunning
  /\ [][((\E i \in Live : isRunning[i]) /\ result'.op = "start-monitoring") =>
          (result'.out = "rejected" /\ nSvc' = nSvc)]_vars

\* C8: stop() on an instance that is not running changes nothing, and
\* 'complete' is emitted and the snapshot written at most once per run,
\* whoever stops it.
C8_OncePerRun ==
  \A i \in Live :
    /\ persistCount[i] + Len(saves[i]) <= runs[i]
    /\ completeCount[i] <= runs[i]
C8_StopIdempotent ==
  /\ []C8_OncePerRun
  /\ [][\A i \in Live :
          (~isRunning[i] /\ result'.op \in {"stop", "deadline"}
                         /\ result'.svc = i) =>
            UNCHANGED <<engineVars, serverVars>>]_vars
C8_Witness ==
  /\ result = Outcome("stop", 1, "noop")
  /\ Stopped(1)
  /\ completeCount[1] = 1
  /\ persistCount[1] = 1

\* C9: a tick whose Metric Source query fails appends nothing, emits 'error'
\* exactly once and leaves the session running with its timers; failed
\* ticks come off the measurements a run can hold (one failure among N
\* scheduled ticks leaves at most N-1), and the session still ends stopped.
C9_FailedTicksCounted ==
  \A i \in Live :
    /\ Len(measurements[i]) + errorCount[i] + InFlight(i) = fired[i]
    /\ fired[i] <= ScheduledTicks(i) * runs[i]
C9_FailureStep ==
  \A i \in Live :
    /\ ticks'[i].failed > ticks[i].failed =>
         /\ errorCount'[i] = errorCount[i]
         /\ UNCHANGED <<measurements, elapsedSeconds, isRunning, intervalId,
                        timeoutId>>
    /\ ticks'[i].failed < ticks[i].failed =>
         /\ errorCount'[i] = errorCount[i] + 1
         /\ UNCHANGED <<measurements, elapsedSeconds, isRunning, intervalId,
                        timeoutId>>
    /\ errorCount'[i] # errorCount[i] =>
         ticks'[i].failed = ticks[i].failed - 1
C9_TickFailureTolerated ==
  /\ []C9_FailedTicksCounted
  /\ [][C9_FailureStep]_vars
  /\ \A i \in Svc : (isRunning[i] /\ errorCount[i] > 0) ~> Stopped(i)
C9_Witness ==
  /\ Stopped(1)
  /\ ScheduledTicks(1) >= 2
  /\ errorCount[1] = 1
  /\ Len(measurements[1]) = ScheduledTicks(1) - 1
  /\ completeCount[1] = 1

\* C10: every started session is stopped in the end, by the deadline timer
\* if nobody calls stop(), however many ticks fail or stay in flight.
C10_DeadlineCompletes == \A i \in Svc : isRunning[i] ~> Stopped(i)
C10_Witness ==
  /\ result = Outcome("deadline", 1, "fired")
  /\ Stopped(1)
  /\ errorCount[1] > 0
  /\ ticks[1].measuring > 0
  /\ Len(measurements[1]) = 0

\* a step in which a saveData() of instance i settles, written or failed
SaveSettles(i) == Len(saves'[i]) < Len(saves[i])

\* C11: a persistence failure never suppresses the completion notification:
\* every saveData() that settles, written or failed, is followed by the
\* 'complete' event of that stop().
C11_CompleteDespiteSaveFailure ==
  [][\A i \in Live : SaveSettles(i) => completeCount'[i] = completeCount[i] + 1]_vars

\* a step in which a saveData() of instance i fails: nothing is written
SaveFails(i) == SaveSettles(i) /\ persistCount'[i] = persistCount[i]

\* C12: a persistence failure in stop() does not roll back the terminal
\* transition: when saveData() fails the session is not running, endTime is
\* set and both timers are cancelled, before the failure and after it.
C12_NoRollback ==
  [][\A i \in Live :
       SaveFails(i) =>
         /\ Stopped(i) /\ intervalId[i] = NULL /\ timeoutId[i] = NULL
         /\ ~isRunning'[i] /\ endTime'[i]
         /\ intervalId'[i] = NULL /\ timeoutId'[i] = NULL]_vars
C12_Witness ==
  /\ Stopped(1)
  /\ intervalId[1] = NULL /\ timeoutId[1] = NULL
  /\ runs[1] = 1
  /\ Len(saves[1]) = 0
  /\ persistCount[1] = 0
  /\ Len(measurements[1]) > 0

\* a step in which stop() of instance i gets past its guard
StopTakesEffect(i) == isRunning[i] /\ ~isRunning'[i]

\* C13: the order of effects in stop(): both timers are cancelled and
\* endTime is set, with the write of the snapshot begun and not finished and
\* nothing emitted; 'complete' is emitted only in the step in which that
\* write finishes, never before; and while the instance is not running no
\* new tick is initiated.
C13_StopStep ==
  \A i \in Live :
    /\ StopTakesEffect(i) =>
         /\ endTime'[i]
         /\ intervalId'[i] = NULL /\ timeoutId'[i] = NULL
         /\ Len(saves'[i]) = Len(saves[i]) + 1
         /\ store'[DataPath(i)] = store[DataPath(i)]
         /\ persistCount'[i] = persistCount[i]
         /\ completeCount'[i] = completeCount[i]
    /\ completeCount'[i] # completeCount[i] =>
         /\ completeCount'[i] = completeCount[i] + 1
         /\ endTime[i]
         /\ SaveSettles(i)
         /\ persistCount'[i] = persistCount[i] + 1
         /\ store'[DataPath(i)].written
    /\ ~isRunning[i] => fired'[i] = fired[i]
C13_EmitAfterPersist ==
  \A i \in Live :
    /\ completeCount[i] <= persistCount[i]
    /\ ~isRunning[i] => intervalId[i] = NULL /\ timeoutId[i] = NULL
C13_StopOrder ==
  /\ []C13_EmitAfterPersist
  /\ [][C13_StopStep]_vars
C13_Witness ==
  /\ Stopped(1)
  /\ completeCount[1] = 1
  /\ store[DataPath(1)].written
  /\ ticks[1].measuring > 0
  /\ Len(store[DataPath(1)].measurements) > 0

\* C14: endTime is set exactly when the session is in a terminal state: it
\* is null before the first start() and during every run, the runs started
\* after an earlier stop() included, and set whenever a run has ended.
C14_EndTimeIffTerminal ==
  \A i \in Live : endTime[i] <=> (runs[i] > 0 /\ ~isRunning[i])

\* a configuration the specification accepts: duration and interval positive
ValidConfig(i) == config[i].duration >= 1 /\ config[i].interval >= 1

\* C15: a start request whose duration or interval is not positive is
\* rejected before any state transition: the instance never runs, no timer
\* is scheduled, no tick is taken and the engine stays idle.
C15_InvalidConfigStaysIdle ==
  \A i \in Live :
    ~ValidConfig(i) =>
      /\ Idle(i)
      /\ intervalId[i] = NULL /\ timeoutId[i] = NULL
      /\ runs[i] = 0 /\ fired[i] = 0

\* C16: a session whose duration is k intervals, whose Metric Source always
\* succeeds and which nobody stops before its deadline emits 'complete'
\* once, and from then on the session and its persisted snapshot hold
\* exactly k measurements.
C16_ExactlyK ==
  \A i \in Live :
    config[i].duration % config[i].interval = 0 =>
      /\ completeCount[i] <= 1
      /\ completeCount[i] = 1 =>
           /\ store[DataPath(i)].written
           /\ Len(store[DataPath(i)].measurements) = ScheduledTicks(i)
           /\ Len(measurements[i]) = ScheduledTicks(i)

\* C17: the persisted snapshot holds the full session record: once it is
\* written and 'complete' has delivered the session object, the measurement
\* sequence of the document equals that of the session object, which
\* statistics and the report read.
C17_SnapshotIsSession ==
  \A i \in Live :
    store[DataPath(i)].written =>
      store[DataPath(i)].measurements = measurements[i]

\* a step in which measureResources() of instance i composes a measurement,
\* and that measurement
Composes(i) == Len(ticks'[i].composed) = Len(ticks[i].composed) + 1
Composed(i) == ticks'[i].composed[Len(ticks'[i].composed)]

\* C18: a measurement composed with no previous counter reading, as the
\* first after construction is, reports a rate of 0 for receive and for
\* transmit and stores the counters just read as the baseline; the first
\* measurement of the session has both rates 0.
C18_FirstStep ==
  \A i \in Live :
    (Composes(i) /\ ~lastNetworkStats[i].present) =>
      /\ Composed(i).rxKBps = 0
      /\ Composed(i).txKBps = 0
      /\ lastNetworkStats'[i].present = networkStats.present
      /\ networkStats.present =>
           /\ lastNetworkStats'[i].rx_bytes = networkStats.rx_bytes
           /\ lastNetworkStats'[i].tx_bytes = networkStats.tx_bytes
C18_FirstIsZero ==
  \A i \in Live :
    /\ fired[i] = 0 => ~lastNetworkStats[i].present
    /\ Len(measurements[i]) > 0 =>
         measurements[i][1].rxKBps = 0 /\ measurements[i][1].txKBps = 0
C18_FirstRateZero ==
  /\ []C18_FirstIsZero
  /\ [][C18_FirstStep]_vars
C18_Witness ==
  /\ Len(measurements[1]) = 1
  /\ measurements[1][1].rxKBps = 0
  /\ measurements[1][1].txKBps = 0
  /\ lastNetworkStats[1] = Stats(3000, 1000)
  /\ errorCount[1] = 0

\* C19: no measurement carries a negative network rate: a counter lower
\* than the previous reading gives the rate 0.
C19_RateNeverNegative ==
  \A i \in Live : \A j \in 1..Len(measurements[i]) :
    measurements[i][j].rxKBps >= 0 /\ measurements[i][j].txKBps >= 0

\* C20 as stated: with a previous reading, the reported rate is
\* (current - previous) / configured interval, in the counter's units per
\* second (the model holds rates in hundredths and the interval in time
\* units).
C20_RateIsDeltaOverInterval ==
  [][\A i \in Live :
       (Composes(i) /\ lastNetworkStats[i].present /\ networkStats.present) =>
         /\ Composed(i).rxKBps * config[i].interval
              = 100 * UnitsPerSecond
                    * (networkStats.rx_bytes - lastNetworkStats[i].rx_bytes)
         /\ Composed(i).txKBps * config[i].interval
              = 100 * UnitsPerSecond
                    * (networkStats.tx_bytes - lastNetworkStats[i].tx_bytes)]_vars

\* hundredths h is the quotient n / d rounded to the nearest hundredth
Nearest(h, n, d) ==
  /\ 2 * (h * d - 100 * n) <= d
  /\ 2 * (100 * n - h * d) <= d

\* C20 amended: with a previous reading and an interface, the reported rate
\* is (current - previous) / configured interval / 1024, in KB/s rounded to
\* two decimals; the interval is the configured one, whatever time passed
\* between the two readings.
C20_RateInKBps ==
  [][\A i \in Live :
       (Composes(i) /\ lastNetworkStats[i].present /\ networkStats.present) =>
         /\ Nearest(Composed(i).rxKBps,
                    UnitsPerSecond
                      * (networkStats.rx_bytes - lastNetworkStats[i].rx_bytes),
                    config[i].interval * 1024)
         /\ Nearest(Composed(i).txKBps,
                    UnitsPerSecond
                      * (networkStats.tx_bytes - lastNetworkStats[i].tx_bytes),
                    config[i].interval * 1024)]_vars
C20_Witness ==
  /\ config[1].interval = UnitsPerSecond
  /\ Len(measurements[1]) = 2
  /\ lastNetworkStats[1] = Stats(3000, 1000)
  /\ measurements[1][2].rxKBps = 195
  /\ measurements[1][2].txKBps = 0

\* C21: the baseline of the Rate Calculator is never carried from one session
\* into another: every accepted start() leaves the instance without a
\* previous counter reading, so the first measurement of the run that
\* begins is computed from none.
C21_BaselinePerSession ==
  [][\A i \in Live :
       (result' = Outcome("start", i, "ok") /\ runs'[i] # runs[i]) =>
         ~lastNetworkStats'[i].present]_vars

\* C29: a failed tick appends no measurement, yet the elapsed counter still
\* advances for it: the step that handles the failure (the one that emits
\* 'error') leaves the measurements as they are and moves the counter on by
\* one tick.
C29_FailedTickAdvancesElapsed ==
  [][\A i \in Live :
       errorCount'[i] = errorCount[i] + 1 =>
         /\ measurements'[i] = measurements[i]
         /\ elapsedSeconds'[i] = elapsedSeconds[i] + ElapsedStep(i)]_vars

\* C30: a session started with an interval longer than its duration holds at
\* most one measurement, while it runs and after it has completed.
C30_AtMostOneMeasurement ==
  \A i \in Live :
    config[i].interval > config[i].duration => Len(measurements[i]) <= 1
C30_Witness ==
  /\ config[1].interval > config[1].duration
  /\ Stopped(1)
  /\ completeCount[1] = 1
  /\ fired[1] = 0

\* C26: the progress delivered with each sample lies within [0, 100] percent,
\* for every valid duration and interval: the callback of a tick of a valid
\* configuration is never handed a progress below 0 or above 100.
C26_ProgressWithinBounds ==
  [][\A i \in Live :
       (ValidConfig(i) /\ Len(measurements'[i]) > Len(measurements[i])) =>
         (Progress(i) >= 0 /\ Progress(i) <= 10000)]_vars

\* C27: session identifiers are unique: two MonitorService instances of the
\* process never hold the same sessionId, so no two of them write their
\* snapshot to the same path.
C27_SessionIdsUnique ==
  \A i, j \in Live :
    i # j => (sessionId[i] # sessionId[j] /\ DataPath(i) # DataPath(j))

\* the sum of the values, taken from the last one
RECURSIVE Total(_)
Total(values) ==
  IF Len(values) = 0 THEN 0
  ELSE values[Len(values)] + Total(SubSeq(values, 1, Len(values) - 1))

\* v is the middle one of an odd number of values: fewer than half of them
\* lie below it and fewer than half above
MiddleOf(v, values) ==
  /\ v \in Range(values)
  /\ 2 * Cardinality({k \in 1..Len(values) : values[k] < v}) < Len(values)
  /\ 2 * Cardinality({k \in 1..Len(values) : values[k] > v}) < Len(values)

\* C23: for every series with at least one value, in getStatistics() and in
\* the report, min is the smallest value, max the largest, avg the
\* arithmetic mean and, for an odd number of values, median the middle one
\* of the values in ascending order, in whatever order the values come
\* (10, 20, 30 in any order: 10, 30, 20, 20).
C23_Aggregates ==
  (/\ result.out = "returned"
   /\ result.returned.kind \in {"statistics", "report"}
   /\ Len(Filtered(series)) > 0) =>
    /\ result.returned.value.finite
    /\ result.returned.value.min \in Range(Filtered(series))
    /\ \A v \in Range(Filtered(series)) : result.returned.value.min <= v
    /\ result.returned.value.max \in Range(Filtered(series))
    /\ \A v \in Range(Filtered(series)) : result.returned.value.max >= v
    /\ result.returned.value.avg.den > 0
    /\ result.returned.value.avg.num * Len(Filtered(series))
         = result.returned.value.avg.den * Total(Filtered(series))
    /\ Len(Filtered(series)) % 2 = 1 =>
         MiddleOf(result.returned.value.median, Filtered(series))
C23_Witness ==
  /\ series = <<30, 10, 20>>
  /\ result.op = "getStatistics"
  /\ result.returned.kind = "statistics"
  /\ result.returned.value.min = 10
  /\ result.returned.value.max = 30
  /\ result.returned.value.avg = [num |-> 60, den |-> 3]
  /\ result.returned.value.median = 20

\* C24: a series that is empty once null and invalid values are filtered
\* out (cpu.temperature absent in every measurement) gets the zero
\* aggregate, min 0, max 0, avg 0, median 0, in getStatistics() as in the
\* report.
C24_EmptySeriesIsZero ==
  (/\ result.out = "returned"
   /\ result.returned.kind \in {"statistics", "report"}
   /\ \A k \in 1..Len(series) : series[k] = NULL) =>
    /\ result.returned.value.finite
    /\ result.returned.value.min = 0
    /\ result.returned.value.max = 0
    /\ result.returned.value.avg.num = 0
    /\ result.returned.value.avg.den # 0
    /\ result.returned.value.median = 0

\* C25: for an even number of values the median is the lower one of the two
\* middle values or the average of the two, and getStatistics() and the
\* report make the same choice.
C25_EvenMedian ==
  LET sorted == SortAscending(Filtered(series))
      lower == sorted[Len(sorted) \div 2]
      upper == sorted[(Len(sorted) \div 2) + 1]
  IN  (/\ result.out = "returned"
   /\ result.returned.kind \in {"statistics", "report"}
       /\ Len(sorted) > 0
       /\ Len(sorted) % 2 = 0) =>
        /\ \/ result.returned.value.median = lower
           \/ 2 * result.returned.value.median = lower + upper
        /\ result.returned.value.median = ReportCalculateStats(series).median
        /\ result.returned.value.median = CalculateStats(Filtered(series)).median

\* C22: getStatistics() on an instance without measurements returns null and
\* does not throw, before start(), while the session runs and after it has
\* completed.
C22_EmptyIsNull ==
  \A i \in Live :
    (result.op = "getStatistics" /\ result.svc = i
       /\ Len(measurements[i]) = 0) =>
      (result.out = "returned" /\ result.returned = Null)
C22_Witness ==
  /\ result = Returned("getStatistics", 1, Null)
  /\ Stopped(1)
  /\ completeCount[1] = 1
  /\ Len(measurements[1]) = 0

\* C28: getStatistics() is a pure read: a call leaves the measurements
\* (content and order), the elapsed counter, the running flag, the timers
\* and every other field as they are; a call that follows another
\* call directly returns an equal result; and the measurements change in no
\* step but the push of a tick, which appends one measurement.
C28_PureRead ==
  [][/\ result'.op = "getStatistics" =>
          UNCHANGED <<engineVars, serverVars, networkStats>>
     /\ (/\ result.op = "getStatistics"
         /\ result'.op = "getStatistics"
         /\ result'.svc = result.svc) => result'.returned = result.returned
     /\ \A i \in Live :
          measurements'[i] # measurements[i] =>
            /\ Len(ticks[i].composed) > 0
            /\ ticks'[i].composed = Tail(ticks[i].composed)
            /\ measurements'[i]
                 = Append(measurements[i], Head(ticks[i].composed))]_vars
C28_Witness ==
  /\ result.op = "getStatistics"
  /\ isRunning[1]
  /\ Len(measurements[1]) = 2
  /\ measurements[1][2].rxKBps < measurements[1][1].rxKBps
  /\ result.returned.kind = "statistics"
  /\ result.returned.value.rxKBps.min = measurements[1][2].rxKBps
  /\ result.returned.value.rxKBps.median = measurements[1][1].rxKBps

\* C31: a session that is running has its system-info snapshot captured
\* already, and no session holds a measurement while its systemInfo is
\* still the empty initial value.
C31_SystemInfoBeforeRunning ==
  \A i \in Live :
    (isRunning[i] \/ Len(measurements[i]) > 0) => systemInfo[i]

\* C32: the peak lookup returns an index into the measurement sequence whose
\* value is the maximum of the series, and the earliest such index when the
\* maximum occurs more than once.
C32_PeakIsEarliestMax ==
  (result.out = "returned" /\ result.returned.kind = "peak") =>
    /\ result.returned.value \in 0..(Len(series) - 1)
    /\ \A k \in 1..Len(series) :
         series[k] <= series[result.returned.value + 1]
    /\ \A k \in 1..result.returned.value :
         series[k] < series[result.returned.value + 1]
C32_Witness ==
  /\ series = <<10, 30, 30>>
  /\ result.op = "addDetailedStats"
  /\ result.returned.value = 1

\* C33: the report announced by 'pdf-ready' for a completed session is
\* generated from that session's own data and written under that session's
\* identifier, so the announced download URL names the file that was
\* written.
C33_ReportIsOfSession ==
  \A r \in pdfReady :
    r.generator = r.session /\ r.pdfFileName = r.downloadUrl

\* C34: after a session has ended, by the deadline, by a user's stop or by a
\* stop whose write fails, monitoringActive eventually is false, so that a
\* later start-monitoring request is accepted.
C34_FlagEventuallyCleared ==
  \A i \in Svc : Stopped(i) ~> ~monitoringActive

\* getSystemInfo() of instance h rejected: the await of the handler settles
\* and no snapshot was stored
SysInfoFails(h) == h \in awaiting /\ h \notin awaiting' /\ ~systemInfo'[h]

\* C35: when capturing the system-info snapshot fails during a
\* start-monitoring request, no session is left marked active: the step in
\* which the capture of the current instance fails leaves monitoringActive
\* false, so that a later start-monitoring request is accepted.
C35_FailedCaptureClearsFlag ==
  [][\A h \in Svc :
       (SysInfoFails(h) /\ monitorService = h) => ~monitoringActive']_vars

\* C36: a stop-monitoring request processed after an accepted
\* start-monitoring request is not lost, also while the start handler still
\* awaits the system-info snapshot: whenever the current MonitorService is
\* running, monitoringActive is true.
C36_RunningImpliesActive ==
  (monitorService # 0 /\ isRunning[monitorService]) => monitoringActive

\* C37: every non-zero network rate of a measurement is the counter delta
\* over exactly one sampling interval: when a measurement with a non-zero
\* rate is composed, the baseline it uses was stored by the tick before
\* this one, also when that tick failed or found no network interface.
C37_BaselineOneIntervalOld ==
  [][\A i \in Live :
       (Composes(i) /\ (Composed(i).rxKBps # 0 \/ Composed(i).txKBps # 0)) =>
         fired[i] - baselineAt[i] = 1]_vars

\* C38: graceful shutdown never exits with the running session's data
\* unpersisted: once the process has exited, the current instance is
\* stopped and no snapshot write of it is still pending.
C38_ExitAfterSnapshot ==
  (process = "exited" /\ monitorService # 0) =>
    /\ ~isRunning[monitorService]
    /\ Len(saves[monitorService]) = 0

====
